---- MODULE Spec2Model ----
(***************************************************************************)
(* Money-exchanger ledger of CashBook Pro (src/app.js, class CashBookApp). *)
(* The ledger is the client object this.moneyExchangerData: the owner      *)
(* names, the customer balances, the transaction log and ownerBalance.     *)
(* Handlers: addNewPersonTransaction (asynchronous: it validates, awaits   *)
(* POST /api/money-exchanger/transactions and only then updates the        *)
(* balances), handleOldPersonTransaction and handleGeneralEntry (both      *)
(* synchronous), addOwner.                                                 *)
(* Amounts are whole numbers of currency units.                            *)
(* The transaction table (delete, edit), saveMoneyExchangerData with its   *)
(* PUT requests in flight, and the server (src/server.js: accounts,        *)
(* requireActiveAccount, the money-exchanger routes over one shared        *)
(* moneyExchangerData object) follow.                                      *)
(* Spec: the forms of the ledger; SpecLog: forms and table buttons;        *)
(* SpecSave: forms and the answers to their PUT requests; SpecOrder: forms *)
(* whose PUT requests are handled in any order; SpecFields: forms with     *)
(* fields left empty; SpecServer: the requests of the accounts to the      *)
(* second server of src/server.js; SpecFirst: the account routes of its    *)
(* first server; SpecReset: the password-reset routes of the database      *)
(* variant, one step per await.                                            *)
(***************************************************************************)
EXTENDS Integers, Sequences, FiniteSets, Bags, TLC

----------------------------------------------------------------------------
(* Bounds of the model *)

MaxAmt == 2          \* largest amount a form submits
MaxBal == 4          \* balances are explored within -MaxBal..MaxBal
MaxOps == 2          \* form submissions (handler runs) explored
MaxReqs == 4         \* requests the server handles

(* Names *)

CurrentOwner == "o1"                 \* this.currentUser.fullName
OwnerNames   == {"o1", "o2"}         \* names addOwner can introduce
CustNames    == {"c1", "c2"}         \* names typed into the customer inputs
System       == "System"
AdminName    == "System Administrator"

Amounts   == 0 .. MaxAmt             \* 0: parseFloat gave NaN, 0 or less
Descs     == {"", "d"}
CashTypes == {"", "USD"}
Dirs      == {"", "+", "-"}          \* checked adjustment-direction radio
OpTypes   == {"PR", "Full", "Debt"}
GeTypes   == {"IN", "OUT", "Adjustment"}

VARIABLES
    owners,         \* moneyExchangerData.owners (names offered by the selects)
    customers,      \* moneyExchangerData.customers: name -> balance
    transactions,   \* moneyExchangerData.transactions
    ownerBalance,   \* moneyExchangerData.ownerBalance
    pending,        \* New-Person requests suspended at their POST
    nextId,         \* identifiers handed out by the server so far
    clock,          \* ticks of the clock read by new Date() so far
    steps,          \* form submissions handled so far
    last,           \* the handler step taken last: what it reported and the
                    \* balances and log it started from
    puts,           \* PUT /api/money-exchanger/data requests in flight
    stored,         \* the server's moneyExchangerData
    users,          \* the server's users: id -> role and accountStatus
    accounts,       \* the server's users: id -> username and email
    passwordResets, \* the server's reset entries: email, code, used
    resetting,      \* reset-password requests waiting for the database
    passwordSaves,  \* the password saves done so far: email, code and the
                    \* reset entry that allowed them
    tokens,         \* the tokens the server has issued
    resp            \* the server's answer to the request handled last

vars == <<owners, customers, transactions, ownerBalance, pending, nextId,
          clock, steps, last, puts, stored, users, accounts, passwordResets,
          resetting, passwordSaves, tokens, resp>>

clientSide == <<owners, customers, transactions, ownerBalance, pending, last>>

resetSide == <<passwordResets, resetting, passwordSaves>>

serverSide == <<users, accounts, resetSide, tokens, resp>>

ledger == <<customers, transactions, ownerBalance>>

----------------------------------------------------------------------------
(* Helpers *)

Abs(x) == IF x < 0 THEN -x ELSE x

Has(cust, n) == n \in DOMAIN cust

Range(s) == {s[i] : i \in DOMAIN s}

\* customers[n] < 0, where customers[n] may be undefined (undefined < 0 is false)
IsNeg(cust, n) == Has(cust, n) /\ cust[n] < 0

\* customers[n] = v
Put(cust, n, v) == [x \in (DOMAIN cust) \cup {n} |-> IF x = n THEN v ELSE cust[x]]

RECURSIVE SumOver(_, _)
SumOver(cust, S) ==
    IF S = {} THEN 0
    ELSE LET n == CHOOSE x \in S : TRUE
         IN  cust[n] + SumOver(cust, S \ {n})

SumCustomers(cust) == SumOver(cust, DOMAIN cust)

Total == ownerBalance + SumCustomers(customers)

InRange(ob, cust) ==
    /\ ob \in -MaxBal .. MaxBal
    /\ \A n \in DOMAIN cust : cust[n] \in -MaxBal .. MaxBal

\* what the payer/payee checkboxes and inputs of a form can hold
Parties(own) ==
    {[type |-> "none", name |-> ""]}
    \cup {[type |-> "owner", name |-> n] : n \in own}
    \cup {[type |-> "customer", name |-> n] : n \in CustNames}

Requests(own) ==
    {[payerType |-> p.type, payerName |-> p.name,
      receiverType |-> q.type, receiverName |-> q.name,
      amount |-> a, desc |-> d, cashType |-> c] :
        p \in Parties(own), q \in Parties(own),
        a \in Amounts, d \in Descs \ {""}, c \in CashTypes}

Tx(id, date, type, payer, receiver, amount, desc, cashType) ==
    [id |-> id, date |-> date, type |-> type, payer |-> payer,
     receiver |-> receiver, amount |-> amount, description |-> desc,
     cashType |-> cashType]

NoId == 0       \* a transaction object without an id property

\* the clock ticks several times a second; new Date().toISOString() keeps the
\* tick, new Date().toLocaleString() on the server writes whole seconds, and
\* new Date(date) in the table reads back the start of that second
TicksPerSecond == 3

ToLocaleString(t) == t - (t % TicksPerSecond)

NoArg == -1     \* the step was not given a row or an identifier

\* record of a handler step, taken in the state the step starts from; arg is
\* the row or the identifier a log maintenance step was called with
MsgOn(op, outcome, arg) ==
    [op |-> op, outcome |-> outcome, arg |-> arg,
     ob |-> ownerBalance, cust |-> customers, log |-> transactions]

Msg(op, outcome) == MsgOn(op, outcome, NoArg)

\* another form may be submitted
Room == steps < MaxOps

----------------------------------------------------------------------------
(* saveMoneyExchangerData *)

\* the request body: this.moneyExchangerData
Body ==
    [owners |-> owners, customers |-> customers,
     transactions |-> transactions, ownerBalance |-> ownerBalance]

\* the PUT leaves with the ledger as the handler has just made it
SaveMoneyExchangerData == puts' = puts (+) SetToBag({Body'})

\* the handlers save on the path that ends in their success message
SaveIfDone ==
    IF last'.outcome = "ok" THEN SaveMoneyExchangerData ELSE UNCHANGED puts

\* the PUT is answered 200: the server holds the body
PutArrive(body) ==
    /\ BagIn(body, puts)
    /\ puts' = puts (-) SetToBag({body})
    /\ stored' = body
    /\ UNCHANGED <<clientSide, nextId, clock, steps, serverSide>>

\* the PUT fails (no answer, 403, 500): apiCall shows an error toast and
\* throws, saveMoneyExchangerData catches
PutFail(body) ==
    /\ BagIn(body, puts)
    /\ puts' = puts (-) SetToBag({body})
    /\ last' = Msg("toast", "SaveFailed")
    /\ UNCHANGED <<owners, customers, transactions, ownerBalance, pending,
                   nextId, clock, steps, stored, serverSide>>

----------------------------------------------------------------------------
(* addNewPersonTransaction *)

\* NPCheck without the owner's debt guard
NPCheck_NoDebtGuard(r, ob, cust) ==
    IF r.payerType = "none" THEN "NoPayer"
    ELSE IF r.receiverType = "none" THEN "NoPayee"
    ELSE IF r.payerName = r.receiverName THEN "SameParty"
    ELSE IF r.amount <= 0 THEN "InvalidAmount"
    ELSE IF r.cashType = "" THEN "NoCashType"
    ELSE IF r.payerType = "customer" /\ Has(cust, r.payerName) THEN "PayerExists"
    ELSE IF r.receiverType = "customer" /\ Has(cust, r.receiverName) THEN "PayeeExists"
    ELSE IF r.payerType = "customer" /\ IsNeg(cust, r.payerName) THEN "OutstandingDebt"
    ELSE "ok"

\* the checks before the POST, in the order of the code
NPCheck(r, ob, cust) ==
    IF r.payerType = "none" THEN "NoPayer"
    ELSE IF r.receiverType = "none" THEN "NoPayee"
    ELSE IF r.payerName = r.receiverName THEN "SameParty"
    ELSE IF r.amount <= 0 THEN "InvalidAmount"
    ELSE IF r.cashType = "" THEN "NoCashType"
    ELSE IF r.payerType = "customer" /\ Has(cust, r.payerName) THEN "PayerExists"
    ELSE IF r.receiverType = "customer" /\ Has(cust, r.receiverName) THEN "PayeeExists"
    ELSE IF r.payerType = "owner" /\ ob < 0 THEN "OutstandingDebt"
    ELSE IF r.payerType = "customer" /\ IsNeg(cust, r.payerName) THEN "OutstandingDebt"
    ELSE "ok"

\* the balance update after the POST returned
NPOwner(r, ob) ==
    IF r.payerType = "owner" THEN ob - r.amount
    ELSE IF r.receiverType = "owner" THEN ob + r.amount
    ELSE ob

NPCustomers(r, cust) ==
    IF r.payerType = "owner"
    THEN IF r.receiverType = "customer"
         THEN Put(cust, r.receiverName, r.amount)
         ELSE cust
    ELSE IF r.receiverType = "owner"
         THEN Put(cust, r.payerName, -r.amount)
         ELSE Put(Put(cust, r.payerName, -r.amount), r.receiverName, r.amount)

\* POST /api/money-exchanger/transactions answers 400 on an empty field
ServerAccepts(r) == r.payerName # "" /\ r.receiverName # "" /\ r.amount # 0

NPSubmit(r) ==
    /\ Room
    /\ steps' = steps + 1
    /\ LET k == NPCheck(r, ownerBalance, customers) IN
        /\ last' = IF k = "ok" THEN Msg("NP", "pending")
                   ELSE Msg("np-message", k)
        /\ pending' = IF k = "ok" THEN pending (+) SetToBag({r}) ELSE pending
    /\ UNCHANGED <<owners, customers, transactions, ownerBalance, nextId, clock>>
    /\ UNCHANGED <<puts, stored, serverSide>>

NPFail(r) ==
    /\ BagIn(r, pending)
    /\ pending' = pending (-) SetToBag({r})
    /\ last' = Msg("np-message", "ServerError")
    /\ UNCHANGED <<owners, customers, transactions, ownerBalance, nextId, clock,
                   steps, puts, stored, serverSide>>

NPCommit(r) ==
    /\ BagIn(r, pending)
    /\  /\ ServerAccepts(r)
        /\ InRange(NPOwner(r, ownerBalance), NPCustomers(r, customers))
        /\ transactions' = Append(transactions,
               Tx(nextId + 1, ToLocaleString(clock + 1), "New Person",
                  r.payerName, r.receiverName, r.amount, r.desc, r.cashType))
        /\ nextId' = nextId + 1
        /\ clock' = clock + 1
        /\ ownerBalance' = NPOwner(r, ownerBalance)
        /\ customers' = NPCustomers(r, customers)
    /\ pending' = pending (-) SetToBag({r})
    /\ last' = Msg("NP", "ok")
    /\ stored' = [stored EXCEPT
                    !.transactions = Append(@, transactions'[Len(transactions')])]
    /\ UNCHANGED <<owners, steps, serverSide>>
    /\ SaveMoneyExchangerData

----------------------------------------------------------------------------
(* handleOldPersonTransaction(type) *)

\* OPCheck that lets a payer without debt make a partial payment
OPCheck_NoDebtCheck(type, r, ob, cust) ==
    IF r.payerType = "none" THEN "NoPayer"
    ELSE IF r.receiverType = "none" THEN "NoPayee"
    ELSE IF r.payerName = r.receiverName THEN "SameParty"
    ELSE IF r.amount <= 0 THEN "InvalidAmount"
    ELSE IF r.cashType = "" THEN "NoCashType"
    ELSE IF r.payerType = "customer" /\ ~Has(cust, r.payerName) THEN "PayerUnknown"
    ELSE IF r.receiverType = "customer" /\ ~Has(cust, r.receiverName) THEN "PayeeUnknown"
    ELSE LET bal == IF r.payerType = "customer" THEN cust[r.payerName] ELSE ob IN
         IF type = "PR" /\ r.amount >= Abs(bal) THEN "AmountExceedsDebt"
         ELSE IF type = "Full" /\ bal >= 0 THEN "NoDebt"
         ELSE IF type = "Full" /\ r.amount # Abs(bal) THEN "AmountMismatch"
         ELSE IF type = "Debt" /\ bal < 0 THEN "OutstandingDebt"
         ELSE "ok"

\* OPCheck that takes any amount up to the debt as a full payment
OPCheck_FullAtMost(type, r, ob, cust) ==
    IF r.payerType = "none" THEN "NoPayer"
    ELSE IF r.receiverType = "none" THEN "NoPayee"
    ELSE IF r.payerName = r.receiverName THEN "SameParty"
    ELSE IF r.amount <= 0 THEN "InvalidAmount"
    ELSE IF r.cashType = "" THEN "NoCashType"
    ELSE IF r.payerType = "customer" /\ ~Has(cust, r.payerName) THEN "PayerUnknown"
    ELSE IF r.receiverType = "customer" /\ ~Has(cust, r.receiverName) THEN "PayeeUnknown"
    ELSE LET bal == IF r.payerType = "customer" THEN cust[r.payerName] ELSE ob IN
         IF type = "PR" /\ bal >= 0 THEN "NoDebt"
         ELSE IF type = "PR" /\ r.amount >= Abs(bal) THEN "AmountExceedsDebt"
         ELSE IF type = "Full" /\ bal >= 0 THEN "NoDebt"
         ELSE IF type = "Full" /\ r.amount > Abs(bal) THEN "AmountMismatch"
         ELSE IF type = "Debt" /\ bal < 0 THEN "OutstandingDebt"
         ELSE "ok"

\* OPCheck that takes an amount equal to the debt as a partial payment
OPCheck_PartialUpToDebt(type, r, ob, cust) ==
    IF r.payerType = "none" THEN "NoPayer"
    ELSE IF r.receiverType = "none" THEN "NoPayee"
    ELSE IF r.payerName = r.receiverName THEN "SameParty"
    ELSE IF r.amount <= 0 THEN "InvalidAmount"
    ELSE IF r.cashType = "" THEN "NoCashType"
    ELSE IF r.payerType = "customer" /\ ~Has(cust, r.payerName) THEN "PayerUnknown"
    ELSE IF r.receiverType = "customer" /\ ~Has(cust, r.receiverName) THEN "PayeeUnknown"
    ELSE LET bal == IF r.payerType = "customer" THEN cust[r.payerName] ELSE ob IN
         IF type = "PR" /\ bal >= 0 THEN "NoDebt"
         ELSE IF type = "PR" /\ r.amount > Abs(bal) THEN "AmountExceedsDebt"
         ELSE IF type = "Full" /\ bal >= 0 THEN "NoDebt"
         ELSE IF type = "Full" /\ r.amount # Abs(bal) THEN "AmountMismatch"
         ELSE IF type = "Debt" /\ bal < 0 THEN "OutstandingDebt"
         ELSE "ok"

\* the checks before the transaction object is built, in the order of the code
OPCheck(type, r, ob, cust) ==
    IF r.payerType = "none" THEN "NoPayer"
    ELSE IF r.receiverType = "none" THEN "NoPayee"
    ELSE IF r.payerName = r.receiverName THEN "SameParty"
    ELSE IF r.amount <= 0 THEN "InvalidAmount"
    ELSE IF r.cashType = "" THEN "NoCashType"
    ELSE IF r.payerType = "customer" /\ ~Has(cust, r.payerName) THEN "PayerUnknown"
    ELSE IF r.receiverType = "customer" /\ ~Has(cust, r.receiverName) THEN "PayeeUnknown"
    ELSE LET bal == IF r.payerType = "customer" THEN cust[r.payerName] ELSE ob IN
         IF type = "PR" /\ bal >= 0 THEN "NoDebt"
         ELSE IF type = "PR" /\ r.amount >= Abs(bal) THEN "AmountExceedsDebt"
         ELSE IF type = "Full" /\ bal >= 0 THEN "NoDebt"
         ELSE IF type = "Full" /\ r.amount # Abs(bal) THEN "AmountMismatch"
         ELSE IF type = "Debt" /\ bal < 0 THEN "OutstandingDebt"
         ELSE "ok"

\* a customer paying "Debt" while the owner owes them: detected after the push
OPLate(type, r, cust) ==
    type = "Debt" /\ r.payerType = "customer" /\ cust[r.payerName] > 0

OPOwner(type, r, ob, cust) ==
    IF r.payerType = "owner" THEN ob - r.amount
    ELSE IF OPLate(type, r, cust) THEN ob
    ELSE IF r.receiverType = "owner" THEN ob + r.amount
    ELSE ob

\* OPCustomers with a Full repayment that clears every customer's balance
OPCustomers_ClearAll(type, r, cust) ==
    IF r.payerType = "owner"
    THEN IF r.receiverType = "customer"
         THEN Put(cust, r.receiverName, cust[r.receiverName] + r.amount)
         ELSE cust
    ELSE LET currentBalance == cust[r.payerName] IN
         IF type = "PR" THEN Put(cust, r.payerName, currentBalance - r.amount)
         ELSE IF type = "Full" THEN [x \in DOMAIN cust |-> 0]
         ELSE IF currentBalance > 0 THEN cust
         ELSE Put(cust, r.payerName, currentBalance - r.amount)

OPCustomers(type, r, cust) ==
    IF r.payerType = "owner"
    THEN IF r.receiverType = "customer"
         THEN Put(cust, r.receiverName, cust[r.receiverName] + r.amount)
         ELSE cust
    ELSE LET currentBalance == cust[r.payerName] IN
         IF type = "PR" THEN Put(cust, r.payerName, currentBalance - r.amount)
         ELSE IF type = "Full" THEN Put(cust, r.payerName, 0)
         ELSE IF currentBalance > 0 THEN cust
         ELSE Put(cust, r.payerName, currentBalance - r.amount)

OldPerson(type, r) ==
    /\ Room
    /\ LET k == OPCheck(type, r, ownerBalance, customers) IN
        IF k # "ok"
        THEN /\ last' = Msg("op-message", k)
             /\ UNCHANGED <<customers, transactions, ownerBalance, clock>>
        ELSE /\ InRange(OPOwner(type, r, ownerBalance, customers),
                        OPCustomers(type, r, customers))
             /\ transactions' = Append(transactions,
                    Tx(NoId, clock + 1, "Old Person (" \o type \o ")",
                       r.payerName, r.receiverName, r.amount, r.desc,
                       r.cashType))
             /\ clock' = clock + 1
             /\ ownerBalance' = OPOwner(type, r, ownerBalance, customers)
             /\ customers' = OPCustomers(type, r, customers)
             /\ last' = IF OPLate(type, r, customers)
                        THEN Msg("op-message", "OwnerOwesYou")
                        ELSE Msg(type, "ok")
    /\ steps' = steps + 1
    /\ UNCHANGED <<owners, pending, nextId, stored, serverSide>>
    /\ SaveIfDone

----------------------------------------------------------------------------
(* handleGeneralEntry(type) *)

GECheck(type, amount, desc, person, dir, cust) ==
    IF amount <= 0 THEN "InvalidAmount"
    ELSE IF desc = "" THEN "NoDescription"
    ELSE IF type # "Adjustment" THEN "ok"
    ELSE IF person.type = "none" THEN "NoAdjustParty"
    ELSE IF person.name = "" THEN "NoPersonSelected"
    ELSE IF person.type = "customer" /\ ~Has(cust, person.name) THEN "UnknownCustomer"
    ELSE IF dir = "" THEN "MissingDirection"
    ELSE "ok"

GEPayer(type, person, dir) ==
    IF type # "Adjustment" THEN System
    ELSE IF person.type = "owner"
         THEN IF dir = "+" THEN System ELSE person.name
         ELSE IF dir = "+" THEN CurrentOwner ELSE person.name

GEReceiver(type, person, dir) ==
    IF type # "Adjustment" THEN System
    ELSE IF person.type = "owner"
         THEN IF dir = "+" THEN person.name ELSE System
         ELSE IF dir = "+" THEN person.name ELSE CurrentOwner

\* GEOwner with a customer adjustment that moves the owner the same way
GEOwner_SameSign(type, amount, person, dir, ob) ==
    IF type = "IN" THEN ob + amount
    ELSE IF type = "OUT" THEN ob - amount
    ELSE IF dir = "+" THEN ob + amount ELSE ob - amount

GEOwner(type, amount, person, dir, ob) ==
    IF type = "IN" THEN ob + amount
    ELSE IF type = "OUT" THEN ob - amount
    ELSE IF person.type = "owner"
         THEN IF dir = "+" THEN ob + amount ELSE ob - amount
         ELSE IF dir = "+" THEN ob - amount ELSE ob + amount

GECustomers(type, amount, person, dir, cust) ==
    IF type = "Adjustment" /\ person.type = "customer"
    THEN IF dir = "+"
         THEN Put(cust, person.name, cust[person.name] + amount)
         ELSE Put(cust, person.name, cust[person.name] - amount)
    ELSE cust

GeneralEntry(type, amount, desc, person, dir) ==
    /\ Room
    /\ LET k == GECheck(type, amount, desc, person, dir, customers) IN
        IF k # "ok"
        THEN /\ last' = Msg("ge-message", k)
             /\ UNCHANGED <<customers, transactions, ownerBalance, clock>>
        ELSE /\ InRange(GEOwner(type, amount, person, dir, ownerBalance),
                        GECustomers(type, amount, person, dir, customers))
             /\ transactions' = Append(transactions,
                    Tx(NoId, clock + 1, "General Entry (" \o type \o ")",
                       GEPayer(type, person, dir), GEReceiver(type, person, dir),
                       amount, desc, "USD"))
             /\ clock' = clock + 1
             /\ ownerBalance' = GEOwner(type, amount, person, dir, ownerBalance)
             /\ customers' = GECustomers(type, amount, person, dir, customers)
             /\ last' = Msg(type, "ok")
    /\ steps' = steps + 1
    /\ UNCHANGED <<owners, pending, nextId, stored, serverSide>>
    /\ SaveIfDone

\* the adjustment inputs are read only by an Adjustment entry
NoPerson == [type |-> "none", name |-> ""]

----------------------------------------------------------------------------
(* addOwner *)

AddOwner(name, ok) ==
    /\ Room
    /\ last' = Msg("AddOwner",
                    IF name = "" THEN "NoOwnerName"
                    ELSE IF name \in owners THEN "OwnerExists"
                    ELSE IF ok THEN "ok" ELSE "ServerError")
    /\ owners' = IF name # "" /\ name \notin owners /\ ok
                 THEN owners \cup {name} ELSE owners
    /\ stored' = IF name # "" /\ name \notin owners /\ ok
                 THEN [stored EXCEPT !.owners = @ \cup {name}] ELSE stored
    /\ steps' = steps + 1
    /\ UNCHANGED <<customers, transactions, ownerBalance, pending, nextId,
                   clock, puts, serverSide>>

----------------------------------------------------------------------------
(* The transaction table: display, delete, edit *)

\* one more step after the forms is left for the table's buttons
RoomLog == steps <= MaxOps

\* SortedTransactions that shows the log backwards without sorting it
SortedTransactions_Reversed(log) ==
    [i \in 1 .. Len(log) |-> log[Len(log) + 1 - i]]

RECURSIVE InsertByDate(_, _)
InsertByDate(t, s) ==
    IF s = << >> THEN <<t>>
    ELSE IF Head(s).date >= t.date THEN <<Head(s)>> \o InsertByDate(t, Tail(s))
    ELSE <<t>> \o s

\* [...transactions].sort((a, b) => new Date(b.date) - new Date(a.date)):
\* newest first, transactions of equal date in the order of the log
RECURSIVE SortedTransactions(_)
SortedTransactions(log) ==
    IF log = << >> THEN << >>
    ELSE InsertByDate(log[Len(log)],
                      SortedTransactions(SubSeq(log, 1, Len(log) - 1)))

\* transactions.findIndex(t => t.id === id), 0 for -1; two transactions
\* without an id property have identical ids (undefined === undefined)
FindIndex(log, id) ==
    IF \E j \in 1 .. Len(log) : log[j].id = id
    THEN CHOOSE j \in 1 .. Len(log) :
            /\ log[j].id = id
            /\ \A k \in 1 .. j - 1 : log[k].id # id
    ELSE 0

\* transactions.splice(j, 1)
Splice(log, j) == SubSeq(log, 1, j - 1) \o SubSeq(log, j + 1, Len(log))

\* DeleteMoneyExchangerTransaction that also takes the amount back from the owner
DeleteMoneyExchangerTransaction_Reversing(index) ==
    /\ RoomLog
    /\ IF index >= Len(transactions)
       THEN /\ last' = MsgOn("Delete", "TypeError", index)
            /\ UNCHANGED <<transactions, ownerBalance>>
       ELSE LET transactionToDelete == transactions[index + 1]
                actualIndex == FindIndex(transactions, transactionToDelete.id)
            IN  /\ transactions' = Splice(transactions, actualIndex)
                /\ ownerBalance' = ownerBalance - transactionToDelete.amount
                /\ last' = MsgOn("Delete", "ok", index)
    /\ steps' = steps + 1
    /\ UNCHANGED <<owners, customers, pending, nextId, clock, stored, serverSide>>
    /\ SaveIfDone

\* the Delete button of row index (from 0) of the table; row Len(transactions)
\* is a row of a table drawn before the log shrank
DeleteMoneyExchangerTransaction(index) ==
    /\ RoomLog
    /\ IF index >= Len(transactions)
       THEN /\ last' = MsgOn("Delete", "TypeError", index)
            /\ UNCHANGED transactions
       ELSE LET transactionToDelete == transactions[index + 1]
                actualIndex == FindIndex(transactions, transactionToDelete.id)
            IN  /\ transactions' = Splice(transactions, actualIndex)
                /\ last' = MsgOn("Delete", "ok", index)
    /\ steps' = steps + 1
    /\ UNCHANGED <<owners, customers, ownerBalance, pending, nextId, clock,
                   stored, serverSide>>
    /\ SaveIfDone

\* what the edit form submits
Patches ==
    {[amount |-> a, description |-> d, cashType |-> c] :
        a \in Amounts, d \in {"e"}, c \in {"EUR"}}

\* the Edit button passes the id as the string '${transaction.id}': for a
\* transaction without an id that is 'undefined', which no transaction has
FindEditable(log, id) == IF id = NoId THEN 0 ELSE FindIndex(log, id)

\* UpdateTransaction that stamps the edited transaction with a new date
UpdateTransaction_Redated(id, patch) ==
    /\ RoomLog
    /\ LET transactionIndex == FindEditable(transactions, id) IN
        IF transactionIndex = 0
        THEN /\ last' = MsgOn("Edit", "NotFound", id)
             /\ UNCHANGED transactions
        ELSE /\ transactions' =
                    [transactions EXCEPT ![transactionIndex] =
                        [@ EXCEPT !.amount = patch.amount,
                                  !.description = patch.description,
                                  !.cashType = patch.cashType,
                                  !.date = clock + 1]]
             /\ last' = MsgOn("Edit", "ok", id)
    /\ steps' = steps + 1
    /\ UNCHANGED <<owners, customers, ownerBalance, pending, nextId, clock,
                   stored, serverSide>>
    /\ SaveIfDone

\* openEditTransactionModal(id), then updateTransaction(patch)
UpdateTransaction(id, patch) ==
    /\ RoomLog
    /\ LET transactionIndex == FindEditable(transactions, id) IN
        IF transactionIndex = 0
        THEN /\ last' = MsgOn("Edit", "NotFound", id)
             /\ UNCHANGED transactions
        ELSE /\ transactions' =
                    [transactions EXCEPT ![transactionIndex] =
                        [@ EXCEPT !.amount = patch.amount,
                                  !.description = patch.description,
                                  !.cashType = patch.cashType]]
             /\ last' = MsgOn("Edit", "ok", id)
    /\ steps' = steps + 1
    /\ UNCHANGED <<owners, customers, ownerBalance, pending, nextId, clock,
                   stored, serverSide>>
    /\ SaveIfDone

----------------------------------------------------------------------------
(* The server (src/server.js): accounts and the money-exchanger routes *)

UserIds == {"user_1", "user_2", "user_3"}

\* initializeDemoData: the owner account and the demo client
InitialUsers ==
    [u \in {"user_1", "user_2"} |->
        IF u = "user_1" THEN [role |-> "owner", accountStatus |-> "active"]
        ELSE [role |-> "client", accountStatus |-> "active"]]

Usernames == {"admin", "democlient", "newclient"}
Emails    == {"admin@cashbookpro.com", "client@demo.com", "new@demo.com"}

\* initializeDemoData: username and email of the two accounts
InitialAccounts ==
    [u \in {"user_1", "user_2"} |->
        IF u = "user_1"
        THEN [username |-> "admin", email |-> "admin@cashbookpro.com"]
        ELSE [username |-> "democlient", email |-> "client@demo.com"]]

\* generateToken: the payload of the token
Token(u) == [userId |-> u, role |-> users[u].role]

\* user.fullName
FullName(u) == IF u = "user_1" THEN AdminName ELSE u

\* the answer to a request of user by about client on, with the users and
\* the ledger the request found
RespOn(route, by, on, code) ==
    [route |-> route, by |-> by, on |-> on, code |-> code, users |-> users,
     accounts |-> accounts, stored |-> stored]

Resp(route, by, code) == RespOn(route, by, "", code)

RoomReq == steps < MaxReqs

\* RequireActiveAccount that only looks the user up
RequireActiveAccount_AnyStatus(t) ==
    \/ t.role = "owner"
    \/ t.userId \in DOMAIN users

\* requireActiveAccount lets the request through
RequireActiveAccount(t) ==
    \/ t.role = "owner"
    \/ /\ t.userId \in DOMAIN users
       /\ users[t.userId].accountStatus = "active"

\* generateId('user'): an id no user has
NewUserId == CHOOSE u \in UserIds : u \notin DOMAIN users

\* users.find(u => u.username === username || u.email === email)
Taken(username, email) ==
    \E u \in DOMAIN accounts :
        accounts[u].username = username \/ accounts[u].email = email

\* Register that activates the account at once
Register_Active(username, email) ==
    /\ RoomReq
    /\ IF Taken(username, email)
       THEN /\ resp' = Resp("register", "", 400)
            /\ UNCHANGED <<users, accounts, tokens>>
       ELSE /\ UserIds \ DOMAIN users # {}
            /\ users' = [x \in DOMAIN users \cup {NewUserId} |->
                            IF x = NewUserId
                            THEN [role |-> "client", accountStatus |-> "active"]
                            ELSE users[x]]
            /\ accounts' = [x \in DOMAIN accounts \cup {NewUserId} |->
                            IF x = NewUserId
                            THEN [username |-> username, email |-> email]
                            ELSE accounts[x]]
            /\ tokens' = tokens \cup {[userId |-> NewUserId, role |-> "client"]}
            /\ resp' = Resp("register", NewUserId, 201)
    /\ steps' = steps + 1
    /\ UNCHANGED <<clientSide, nextId, clock, puts, stored, resetSide>>

\* POST /api/auth/register
Register(username, email) ==
    /\ RoomReq
    /\ IF Taken(username, email)
       THEN /\ resp' = Resp("register", "", 400)
            /\ UNCHANGED <<users, accounts, tokens>>
       ELSE /\ UserIds \ DOMAIN users # {}
            /\ users' = [x \in DOMAIN users \cup {NewUserId} |->
                            IF x = NewUserId
                            THEN [role |-> "client", accountStatus |-> "pending"]
                            ELSE users[x]]
            /\ accounts' = [x \in DOMAIN accounts \cup {NewUserId} |->
                            IF x = NewUserId
                            THEN [username |-> username, email |-> email]
                            ELSE accounts[x]]
            /\ tokens' = tokens \cup {[userId |-> NewUserId, role |-> "client"]}
            /\ resp' = Resp("register", NewUserId, 201)
    /\ steps' = steps + 1
    /\ UNCHANGED <<clientSide, nextId, clock, puts, stored, resetSide>>

\* POST /api/auth/login, with the password of u or with a wrong one
Login(u, rightPassword) ==
    /\ RoomReq
    /\ IF u \in DOMAIN users /\ rightPassword
       THEN /\ tokens' = tokens \cup {Token(u)}
            /\ resp' = Resp("login", u, 200)
       ELSE /\ resp' = Resp("login", u, 401)
            /\ UNCHANGED tokens
    /\ steps' = steps + 1
    /\ UNCHANGED <<clientSide, nextId, clock, puts, stored, users, accounts,
                   resetSide>>

MaxResets == 2       \* reset entries the server keeps

Codes == {"111111", "222222"}        \* what generateResetCode returns

\* POST /api/auth/forgot-password: a reset entry with a new code
ForgotPassword(email, resetCode) ==
    /\ RoomReq
    /\ Len(passwordResets) < MaxResets
    /\ IF \E u \in DOMAIN accounts : accounts[u].email = email
       THEN /\ passwordResets' = Append(passwordResets,
                    [email |-> email, code |-> resetCode, used |-> FALSE])
            /\ resp' = Resp("forgot-password", "", 200)
       ELSE /\ resp' = Resp("forgot-password", "", 404)
            /\ UNCHANGED passwordResets
    /\ steps' = steps + 1
    /\ UNCHANGED <<clientSide, nextId, clock, puts, stored, users, accounts,
                   resetting, passwordSaves, tokens>>

\* passwordResets.find(r => r.email === email && r.code === code && !r.used
\* && new Date() < new Date(r.expires)), 0 for undefined; the requests come
\* within the 15 minutes of the entries
FindReset(email, code) ==
    LET hits == {i \in 1 .. Len(passwordResets) :
                    /\ passwordResets[i].email = email
                    /\ passwordResets[i].code = code
                    /\ ~passwordResets[i].used}
    IN  IF hits = {} THEN 0
        ELSE CHOOSE i \in hits : \A j \in hits : i <= j

\* POST /api/auth/reset-password of src/server.js: one synchronous run
ResetPassword(email, code) ==
    /\ RoomReq
    /\ LET i == FindReset(email, code) IN
        IF i = 0
        THEN /\ resp' = Resp("reset-password", "", 400)
             /\ UNCHANGED <<passwordResets, passwordSaves>>
        ELSE IF ~\E u \in DOMAIN accounts : accounts[u].email = email
        THEN /\ resp' = Resp("reset-password", "", 404)
             /\ UNCHANGED <<passwordResets, passwordSaves>>
        ELSE /\ passwordSaves' = Append(passwordSaves,
                    [email |-> email, code |-> code, entry |-> i])
             /\ passwordResets' = [passwordResets EXCEPT ![i].used = TRUE]
             /\ resp' = Resp("reset-password", "", 200)
    /\ steps' = steps + 1
    /\ UNCHANGED <<clientSide, nextId, clock, puts, stored, users, accounts,
                   resetting, tokens>>

\* POST /api/auth/reset-password of src/unnamed/part_001, up to its first
\* await: PasswordReset.findOne
ResetFind(email, code) ==
    /\ RoomReq
    /\ LET i == FindReset(email, code) IN
        IF i = 0
        THEN /\ resp' = Resp("reset-password", "", 400)
             /\ UNCHANGED resetting
        ELSE /\ resetting' = resetting \cup
                    {[req |-> steps + 1, email |-> email, code |-> code,
                      entry |-> i, pc |-> "found"]}
             /\ resp' = Resp("reset-password", "", 0)
    /\ steps' = steps + 1
    /\ UNCHANGED <<clientSide, nextId, clock, puts, stored, users, accounts,
                   passwordResets, passwordSaves, tokens>>

\* ... User.findOne, user.password = newPassword, await user.save()
ResetSavePassword(q) ==
    /\ q \in resetting
    /\ q.pc = "found"
    /\ IF \E u \in DOMAIN accounts : accounts[u].email = q.email
       THEN /\ passwordSaves' = Append(passwordSaves,
                    [email |-> q.email, code |-> q.code, entry |-> q.entry])
            /\ resetting' = (resetting \ {q}) \cup {[q EXCEPT !.pc = "saved"]}
            /\ resp' = Resp("reset-password", "", 0)
       ELSE /\ resetting' = resetting \ {q}
            /\ resp' = Resp("reset-password", "", 404)
            /\ UNCHANGED passwordSaves
    /\ UNCHANGED <<clientSide, nextId, clock, steps, puts, stored, users,
                   accounts, passwordResets, tokens>>

\* ... resetEntry.used = true, await resetEntry.save(), the answer
ResetSaveUsed(q) ==
    /\ q \in resetting
    /\ q.pc = "saved"
    /\ passwordResets' = [passwordResets EXCEPT ![q.entry].used = TRUE]
    /\ resetting' = resetting \ {q}
    /\ resp' = Resp("reset-password", "", 200)
    /\ UNCHANGED <<clientSide, nextId, clock, steps, puts, stored, users,
                   accounts, passwordSaves, tokens>>

\* PUT /api/auth/admin-settings: the owner sets its username and email,
\* giving its current password or a wrong one
AdminSettings(t, username, email, rightPassword) ==
    /\ RoomReq
    /\ t \in tokens
    /\ LET user == accounts[t.userId] IN
        IF t.role # "owner"
        THEN /\ resp' = Resp("admin-settings", t.userId, 403)
             /\ UNCHANGED accounts
        ELSE IF ~rightPassword
        THEN /\ resp' = Resp("admin-settings", t.userId, 401)
             /\ UNCHANGED accounts
        ELSE IF /\ username # user.username
                /\ \E u \in DOMAIN accounts \ {t.userId} :
                      accounts[u].username = username
        THEN /\ resp' = Resp("admin-settings", t.userId, 400)
             /\ UNCHANGED accounts
        ELSE IF /\ email # user.email
                /\ \E u \in DOMAIN accounts \ {t.userId} :
                      accounts[u].email = email
        THEN /\ resp' = Resp("admin-settings", t.userId, 400)
             /\ UNCHANGED accounts
        ELSE /\ accounts' = [accounts EXCEPT ![t.userId] =
                                [username |-> username, email |-> email]]
             /\ resp' = Resp("admin-settings", t.userId, 200)
    /\ steps' = steps + 1
    /\ UNCHANGED <<clientSide, nextId, clock, puts, stored, users,
                   resetSide, tokens>>

\* PUT /api/auth/admin-settings as the first server of src/server.js has it:
\* username and email are assigned as they come
AdminSettingsFirst(t, username, email, rightPassword) ==
    /\ RoomReq
    /\ t \in tokens
    /\ IF t.role # "owner"
       THEN /\ resp' = Resp("admin-settings", t.userId, 403)
            /\ UNCHANGED accounts
       ELSE IF ~rightPassword
       THEN /\ resp' = Resp("admin-settings", t.userId, 401)
            /\ UNCHANGED accounts
       ELSE /\ accounts' = [accounts EXCEPT ![t.userId] =
                               [username |-> username, email |-> email]]
            /\ resp' = Resp("admin-settings", t.userId, 200)
    /\ steps' = steps + 1
    /\ UNCHANGED <<clientSide, nextId, clock, puts, stored, users,
                   resetSide, tokens>>

\* the status routes of the owner: find the client, set its accountStatus
SetStatus(route, t, c, status) ==
    /\ RoomReq
    /\ t \in tokens
    /\ IF t.role # "owner"
       THEN /\ resp' = RespOn(route, t.userId, c, 403)
            /\ UNCHANGED users
       ELSE IF c \notin DOMAIN users \/ users[c].role # "client"
       THEN /\ resp' = RespOn(route, t.userId, c, 404)
            /\ UNCHANGED users
       ELSE /\ users' = [users EXCEPT ![c].accountStatus = status]
            /\ resp' = RespOn(route, t.userId, c, 200)
    /\ steps' = steps + 1
    /\ UNCHANGED <<clientSide, nextId, clock, puts, stored, accounts,
                   resetSide, tokens>>

\* POST /api/owner/verify-payment/:clientId
VerifyPayment(t, c) == SetStatus("verify-payment", t, c, "active")

\* POST /api/owner/suspend/:clientId
Suspend(t, c) == SetStatus("suspend", t, c, "suspended")

\* what GET /api/money-exchanger/data answers to user u when the server holds st
DataFor(u, st) ==
    [owners |-> {FullName(u)} \cup st.owners, customers |-> st.customers,
     transactions |-> st.transactions, ownerBalance |-> st.ownerBalance]

\* GET /api/money-exchanger/data
GetData(t) ==
    /\ RoomReq
    /\ t \in tokens
    /\ resp' = Resp("GET data", t.userId,
                    IF RequireActiveAccount(t) THEN 200 ELSE 403)
    /\ steps' = steps + 1
    /\ UNCHANGED <<clientSide, nextId, clock, puts, stored, users, accounts,
                   resetSide, tokens>>

\* ledgers a client sends
Bodies(u) ==
    {[owners |-> {FullName(u)}, customers |-> [c \in {"c1"} |-> a],
      transactions |-> << >>, ownerBalance |-> -a] : a \in Amounts \ {0}}

\* PUT /api/money-exchanger/data
PutData(t, body) ==
    /\ RoomReq
    /\ t \in tokens
    /\ IF RequireActiveAccount(t)
       THEN /\ stored' = body
            /\ resp' = Resp("PUT data", t.userId, 200)
       ELSE /\ resp' = Resp("PUT data", t.userId, 403)
            /\ UNCHANGED stored
    /\ steps' = steps + 1
    /\ UNCHANGED <<clientSide, nextId, clock, puts, users, accounts,
                   resetSide, tokens>>

\* POST /api/money-exchanger/owners
PostOwner(t, name) ==
    /\ RoomReq
    /\ t \in tokens
    /\ IF ~RequireActiveAccount(t)
       THEN /\ resp' = Resp("POST owners", t.userId, 403)
            /\ UNCHANGED stored
       ELSE IF name = ""
       THEN /\ resp' = Resp("POST owners", t.userId, 400)
            /\ UNCHANGED stored
       ELSE /\ stored' = [stored EXCEPT !.owners = @ \cup {name}]
            /\ resp' = Resp("POST owners", t.userId, 200)
    /\ steps' = steps + 1
    /\ UNCHANGED <<clientSide, nextId, clock, puts, users, accounts,
                   resetSide, tokens>>

\* POST /api/money-exchanger/transactions
PostTransaction(t, r) ==
    /\ RoomReq
    /\ t \in tokens
    /\ IF ~RequireActiveAccount(t)
       THEN /\ resp' = Resp("POST transactions", t.userId, 403)
            /\ UNCHANGED <<stored, nextId, clock>>
       ELSE IF ~ServerAccepts(r)
       THEN /\ resp' = Resp("POST transactions", t.userId, 400)
            /\ UNCHANGED <<stored, nextId, clock>>
       ELSE /\ stored' = [stored EXCEPT !.transactions = Append(@,
                    Tx(nextId + 1, ToLocaleString(clock + 1), "New Person",
                       r.payerName, r.receiverName, r.amount, r.desc,
                       r.cashType))]
            /\ nextId' = nextId + 1
            /\ clock' = clock + 1
            /\ resp' = Resp("POST transactions", t.userId, 201)
    /\ steps' = steps + 1
    /\ UNCHANGED <<clientSide, puts, users, accounts, resetSide, tokens>>

\* transactions posted to the server
Posted ==
    {[payerType |-> "owner", payerName |-> p,
      receiverType |-> "customer", receiverName |-> "c1",
      amount |-> a, desc |-> "d", cashType |-> "USD"] :
        p \in {"", "o1"}, a \in {0, 1}}

----------------------------------------------------------------------------
Init ==
    /\ owners = {CurrentOwner}
    /\ customers = << >>
    /\ transactions = << >>
    /\ ownerBalance = 0
    /\ pending = EmptyBag
    /\ nextId = 0
    /\ clock = 0
    /\ steps = 0
    /\ last = Msg("init", "ok")
    /\ puts = EmptyBag
    /\ stored = [owners |-> {AdminName}, customers |-> << >>,
                 transactions |-> << >>, ownerBalance |-> 0]
    /\ users = InitialUsers
    /\ accounts = InitialAccounts
    /\ passwordResets = << >>
    /\ resetting = {}
    /\ passwordSaves = << >>
    /\ tokens = {}
    /\ resp = Resp("none", "", 0)

Next ==
    \/ \E r \in Requests(owners) : NPSubmit(r)
    \/ \E r \in BagToSet(pending) : NPFail(r)
    \/ \E r \in BagToSet(pending) : NPCommit(r)
    \/ \E type \in OpTypes, r \in Requests(owners) : OldPerson(type, r)
    \/ \E type \in {"IN", "OUT"}, a \in Amounts, d \in Descs :
          GeneralEntry(type, a, d, NoPerson, "")
    \/ \E a \in Amounts, d \in Descs, p \in Parties(owners), dir \in Dirs :
          GeneralEntry("Adjustment", a, d, p, dir)
    \/ \E name \in OwnerNames \cup {""}, ok \in BOOLEAN : AddOwner(name, ok)

Spec == Init /\ [][Next]_vars

\* the forms that fill the log, then the buttons of the transaction table
LogRequests(own) ==
    {r \in Requests(own) :
        /\ r.payerType = "owner" /\ r.receiverType = "customer"
        /\ r.amount > 0 /\ r.cashType # ""}

NextLog ==
    \/ \E r \in LogRequests(owners) : NPSubmit(r)
    \/ \E r \in BagToSet(pending) : NPCommit(r)
    \/ \E type \in {"IN", "OUT"}, a \in Amounts \ {0} :
          GeneralEntry(type, a, "d", NoPerson, "")
    \/ \E index \in 0 .. Len(transactions) :
          DeleteMoneyExchangerTransaction(index)
    \/ \E id \in 0 .. nextId + 1, patch \in Patches :
          UpdateTransaction(id, patch)

SpecLog == Init /\ [][NextLog]_vars

\* the forms that save the ledger, and the answers to their PUT requests
NextSave ==
    \/ \E r \in LogRequests(owners) : NPSubmit(r)
    \/ \E r \in BagToSet(pending) : NPCommit(r)
    \/ \E type \in OpTypes, r \in LogRequests(owners) : OldPerson(type, r)
    \/ \E type \in {"IN", "OUT"}, a \in Amounts \ {0} :
          GeneralEntry(type, a, "d", NoPerson, "")
    \/ \E body \in BagToSet(puts) : PutArrive(body)
    \/ \E body \in BagToSet(puts) : PutFail(body)

SpecSave == Init /\ [][NextSave]_vars

\* the forms that save the ledger, every PUT request answered 200, in any
\* order
NextOrder ==
    \/ \E r \in LogRequests(owners) : NPSubmit(r)
    \/ \E r \in BagToSet(pending) : NPCommit(r)
    \/ \E type \in OpTypes, r \in LogRequests(owners) : OldPerson(type, r)
    \/ \E type \in {"IN", "OUT"}, a \in Amounts \ {0} :
          GeneralEntry(type, a, "d", NoPerson, "")
    \/ \E body \in BagToSet(puts) : PutArrive(body)

SpecOrder == Init /\ [][NextOrder]_vars

\* the requests of the accounts to the server
NextServer ==
    \/ \E username \in Usernames, email \in Emails : Register(username, email)
    \/ \E u \in UserIds, rightPassword \in BOOLEAN : Login(u, rightPassword)
    \/ \E email \in Emails, resetCode \in Codes :
          ForgotPassword(email, resetCode)
    \/ \E email \in Emails, code \in Codes : ResetPassword(email, code)
    \/ \E t \in tokens, username \in Usernames, email \in Emails,
          rightPassword \in BOOLEAN :
            AdminSettings(t, username, email, rightPassword)
    \/ \E t \in tokens, c \in UserIds : VerifyPayment(t, c)
    \/ \E t \in tokens, c \in UserIds : Suspend(t, c)
    \/ \E t \in tokens : GetData(t)
    \/ \E t \in tokens : \E body \in Bodies(t.userId) : PutData(t, body)
    \/ \E t \in tokens, name \in {"", "o2"} : PostOwner(t, name)
    \/ \E t \in tokens, r \in Posted : PostTransaction(t, r)

SpecServer == Init /\ [][NextServer]_vars

\* the forms as a user can leave them: a party input or select without a
\* name, no description, no cash type
FieldParties ==
    {NoPerson, [type |-> "owner", name |-> CurrentOwner],
     [type |-> "owner", name |-> ""], [type |-> "customer", name |-> "c1"],
     [type |-> "customer", name |-> ""]}

FieldRequests ==
    {[payerType |-> p.type, payerName |-> p.name,
      receiverType |-> q.type, receiverName |-> q.name,
      amount |-> a, desc |-> d, cashType |-> c] :
        p \in FieldParties, q \in FieldParties,
        a \in Amounts, d \in Descs, c \in CashTypes}

NextFields ==
    \/ \E r \in FieldRequests : NPSubmit(r)
    \/ \E r \in BagToSet(pending) : NPFail(r)
    \/ \E r \in BagToSet(pending) : NPCommit(r)
    \/ \E type \in OpTypes, r \in FieldRequests : OldPerson(type, r)
    \/ \E type \in {"IN", "OUT"}, a \in Amounts, d \in Descs :
          GeneralEntry(type, a, d, NoPerson, "")
    \/ \E a \in Amounts, d \in Descs, p \in FieldParties, dir \in Dirs :
          GeneralEntry("Adjustment", a, d, p, dir)

SpecFields == Init /\ [][NextFields]_vars

\* the password routes of src/unnamed/part_001: every await of
\* reset-password is a step of its own
NextReset ==
    \/ \E email \in Emails, resetCode \in Codes :
          ForgotPassword(email, resetCode)
    \/ \E email \in Emails, code \in Codes : ResetFind(email, code)
    \/ \E q \in resetting : ResetSavePassword(q)
    \/ \E q \in resetting : ResetSaveUsed(q)

SpecReset == Init /\ [][NextReset]_vars

\* the account routes of the first server of src/server.js
NextFirst ==
    \/ \E username \in Usernames, email \in Emails : Register(username, email)
    \/ \E u \in UserIds, rightPassword \in BOOLEAN : Login(u, rightPassword)
    \/ \E t \in tokens, username \in Usernames, email \in Emails,
          rightPassword \in BOOLEAN :
            AdminSettingsFirst(t, username, email, rightPassword)

SpecFirst == Init /\ [][NextFirst]_vars

----------------------------------------------------------------------------
(* Vocabulary of the properties *)

\* the spec's rejection kinds, by the messages of the handlers
MissingField          == {"NoPayer", "NoPayee", "NoCashType", "NoDescription",
                          "NoAdjustParty", "NoPersonSelected", "NoOwnerName"}
InvalidParties        == {"SameParty"}
CustomerAlreadyExists == {"PayerExists", "PayeeExists"}
UnknownCustomer       == {"PayerUnknown", "PayeeUnknown", "UnknownCustomer"}
InvertedDebtDirection == {"OwnerOwesYou"}

LastTx == transactions[Len(transactions)]

\* the step taken last was an accepted run of one of the handlers in ops; its
\* transaction is LastTx
Accepted(ops) ==
    /\ last.op \in ops
    /\ last.outcome = "ok"
    /\ Len(transactions) = Len(last.log) + 1

\* the step taken last reported an error
Rejected == last.outcome \notin {"ok", "pending"}

IsOwner(n) == n \in OwnerNames

\* balance of a party by name; a customer not yet in the set stands at 0
Bal(ob, cust, n) ==
    IF IsOwner(n) THEN ob ELSE IF Has(cust, n) THEN cust[n] ELSE 0

BalBefore(n) == Bal(last.ob, last.cust, n)
BalNow(n)    == Bal(ownerBalance, customers, n)

TotalBefore == last.ob + SumCustomers(last.cust)

CustomerAdjustment(t) ==
    t.type = "General Entry (Adjustment)" /\ System \notin {t.payer, t.receiver}

----------------------------------------------------------------------------
(* C1: ownerBalance plus the sum of the customer balances changes only in   *)
(* an accepted CashIn, CashOut or owner-Adjustment step; every other step,  *)
(* in particular every accepted New-Person, Old-Person and                  *)
(* customer-Adjustment transfer, leaves that total unchanged.               *)
C1_TotalPreserved ==
    Total # TotalBefore =>
        /\ Accepted({"IN", "OUT", "Adjustment"})
        /\ ~CustomerAdjustment(LastTx)

(* C2: a rejected request leaves ownerBalance, the customer balances, the   *)
(* customer set and the transaction log as they were.                       *)
C2_RejectionChangesNothing ==
    Rejected =>
        /\ ownerBalance = last.ob
        /\ customers = last.cust
        /\ transactions = last.log

(* C3: an accepted PartialRepayment of amount a raises the payer's balance  *)
(* by a and raises the receiver's balance by a.                             *)
C3_PartialRepaymentEffect ==
    Accepted({"PR"}) =>
        /\ BalNow(LastTx.payer) = BalBefore(LastTx.payer) + LastTx.amount
        /\ BalNow(LastTx.receiver) = BalBefore(LastTx.receiver) + LastTx.amount

(* C4: after an accepted FullRepayment the payer's balance is zero.         *)
C4_FullRepaymentClears ==
    Accepted({"Full"}) => BalNow(LastTx.payer) = 0

(* Requests with a payer in debt *)

\* the form is filled in: parties chosen and distinct, amount and cash type valid
FieldsOk(r) ==
    /\ r.payerType # "none" /\ r.receiverType # "none"
    /\ r.payerName # r.receiverName
    /\ r.amount > 0 /\ r.cashType # ""

PayerInDebt(r) ==
    \/ r.payerType = "owner" /\ ownerBalance < 0
    \/ r.payerType = "customer" /\ IsNeg(customers, r.payerName)

\* the receiver is one the request's tab accepts
NewReceiver(r) == r.receiverType = "customer" => ~Has(customers, r.receiverName)
OldReceiver(r) == r.receiverType = "customer" => Has(customers, r.receiverName)

C6_NewPersonEffect ==
    Accepted({"NP"}) =>
        /\ BalNow(LastTx.payer) = BalBefore(LastTx.payer) - LastTx.amount
        /\ BalNow(LastTx.receiver) = BalBefore(LastTx.receiver) + LastTx.amount

(* C7: a New-Person request naming an existing customer is rejected with    *)
(* CustomerAlreadyExists, and no accepted New-Person transfer changes the   *)
(* balance of a customer that already exists.                               *)
C7_NoOverwrite ==
    /\ \A r \in Requests(owners) :
        /\ FieldsOk(r)
        /\ \/ r.payerType = "customer" /\ Has(customers, r.payerName)
           \/ r.receiverType = "customer" /\ Has(customers, r.receiverName)
        => NPCheck(r, ownerBalance, customers) \in CustomerAlreadyExists
    /\ Accepted({"NP"}) =>
           \A n \in DOMAIN last.cust : customers[n] = last.cust[n]

\* the customer names a New-Person transaction introduces
Introduced(t) == {t.payer, t.receiver} \ OwnerNames

(* C8: validation and balance update of a request are one atomic step: two  *)
(* New-Person requests in flight together that introduce the same customer  *)
(* name do not both commit, so no two New-Person transactions of the log    *)
(* introduce the same customer.                                             *)
C8_AtomicValidateApply ==
    \A i, j \in 1 .. Len(transactions) :
        /\ i < j
        /\ transactions[i].type = "New Person"
        /\ transactions[j].type = "New Person"
        => Introduced(transactions[i]) \cap Introduced(transactions[j]) = {}

(* C9: an accepted operation leaves the balance of every customer who is    *)
(* neither the payer nor the receiver of the recorded transaction as it     *)
(* was.                                                                     *)
C9_BystandersUnchanged ==
    Accepted({"NP", "PR", "Full", "Debt", "IN", "OUT", "Adjustment"}) =>
        \A c \in DOMAIN last.cust :
            c \notin {LastTx.payer, LastTx.receiver} =>
                Has(customers, c) /\ customers[c] = last.cust[c]

\* an accepted operation changed one customer while another stood by
C9_Witness ==
    /\ Accepted({"NP", "PR", "Full", "Debt", "Adjustment"})
    /\ \E c \in DOMAIN last.cust : c \notin {LastTx.payer, LastTx.receiver}
    /\ \E c \in DOMAIN last.cust :
          c \in {LastTx.payer, LastTx.receiver} /\ customers[c] # last.cust[c]

(* C10: CashIn raises ownerBalance by the amount and CashOut lowers it, no  *)
(* customer balance changing; an owner Adjustment changes ownerBalance      *)
(* alone by +amount or -amount by its direction; a customer Adjustment      *)
(* changes that customer's balance by +amount or -amount and ownerBalance   *)
(* by the opposite amount.                                                  *)
C10_GeneralEntryEffect ==
    Accepted({"IN", "OUT", "Adjustment"}) =>
        LET t == LastTx IN
          /\ last.op = "IN" =>
                ownerBalance = last.ob + t.amount /\ customers = last.cust
          /\ last.op = "OUT" =>
                ownerBalance = last.ob - t.amount /\ customers = last.cust
          /\ last.op = "Adjustment" /\ t.payer = System =>
                ownerBalance = last.ob + t.amount /\ customers = last.cust
          /\ last.op = "Adjustment" /\ t.receiver = System =>
                ownerBalance = last.ob - t.amount /\ customers = last.cust
          /\ CustomerAdjustment(t) /\ ~IsOwner(t.receiver) =>
                /\ customers = Put(last.cust, t.receiver,
                                   last.cust[t.receiver] + t.amount)
                /\ ownerBalance = last.ob - t.amount
          /\ CustomerAdjustment(t) /\ ~IsOwner(t.payer) =>
                /\ customers = Put(last.cust, t.payer,
                                   last.cust[t.payer] - t.amount)
                /\ ownerBalance = last.ob + t.amount

\* a customer was just adjusted upwards
C10_Witness ==
    /\ Accepted({"Adjustment"})
    /\ CustomerAdjustment(LastTx)
    /\ LastTx.receiver \in DOMAIN last.cust

(* C11: every accepted ledger operation (New-Person, Old-Person, General    *)
(* Entry) is recorded in the log with an identifier assigned by the server  *)
(* before success is reported; no transaction of the log lacks an           *)
(* identifier.                                                              *)
C11_EveryTxHasServerId ==
    /\ \A i \in 1 .. Len(transactions) : transactions[i].id # NoId
    /\ Accepted({"NP", "PR", "Full", "Debt", "IN", "OUT", "Adjustment"}) =>
           LastTx.id = nextId

(* C12: neither deleting nor editing a transaction changes ownerBalance or  *)
(* any customer balance, whatever the row, the identifier and the patch.    *)
C12_MaintenanceKeepsBalances ==
    last.op \in {"Delete", "Edit"} =>
        ownerBalance = last.ob /\ customers = last.cust

\* a transaction that had moved money was just deleted
C12_Witness ==
    /\ last.op = "Delete"
    /\ last.outcome = "ok"
    /\ Len(transactions) < Len(last.log)
    /\ ownerBalance # 0
    /\ DOMAIN customers # {}

(* C13: deleting removes exactly the transaction of the row the user        *)
(* clicked in the table (most recent first): the log afterwards is the      *)
(* previous log without that one transaction; a row that is not in the      *)
(* table leaves the log unchanged.                                          *)
C13_DeleteRemovesIdentified ==
    last.op = "Delete" =>
        LET rows == SortedTransactions(last.log) IN
          IF last.arg < Len(rows)
          THEN \E j \in 1 .. Len(last.log) :
                  /\ last.log[j] = rows[last.arg + 1]
                  /\ transactions = Splice(last.log, j)
          ELSE transactions = last.log

(* C14: editing changes only the amount, description and cashType of the    *)
(* transaction with the given id: its id, date, type, payer and receiver,   *)
(* every other transaction and the length of the log are unchanged; an id   *)
(* that no transaction of the log has is reported NotFound and changes      *)
(* nothing.                                                                 *)
C14_EditFrame ==
    last.op = "Edit" =>
        LET hit == {j \in 1 .. Len(last.log) :
                       last.arg # NoId /\ last.log[j].id = last.arg}
        IN  /\ Len(transactions) = Len(last.log)
            /\ \A j \in 1 .. Len(last.log) :
                  IF j \in hit
                  THEN /\ transactions[j].id = last.log[j].id
                       /\ transactions[j].date = last.log[j].date
                       /\ transactions[j].type = last.log[j].type
                       /\ transactions[j].payer = last.log[j].payer
                       /\ transactions[j].receiver = last.log[j].receiver
                  ELSE transactions[j] = last.log[j]
            /\ hit = {} => last.outcome = "NotFound" /\ transactions = last.log
            /\ hit # {} => last.outcome = "ok"

\* one transaction of a longer log was just edited
C14_Witness ==
    /\ last.op = "Edit"
    /\ last.outcome = "ok"
    /\ Len(transactions) >= 2
    /\ \E j \in 1 .. Len(transactions) :
          /\ transactions[j].id = last.arg
          /\ transactions[j].cashType = "EUR"
          /\ last.log[j].cashType = "USD"

(* Vocabulary of the server properties *)

LedgerRoutes == {"GET data", "PUT data", "POST owners", "POST transactions"}

LedgerWrites == {"PUT data", "POST owners", "POST transactions"}

\* the client accounts other than the caller of the request handled last
OtherClients ==
    {u \in DOMAIN users : u # resp.by /\ users[u].role = "client"}

(* C15: every request to the ledger routes by a client account whose        *)
(* accountStatus is not 'active' is answered 403 and leaves the users and   *)
(* the stored ledger unchanged, also when its token was issued while the    *)
(* account was active.                                                      *)
C15_InactiveClientRejected ==
    /\ resp.route \in LedgerRoutes
    /\ resp.users[resp.by].role = "client"
    /\ resp.users[resp.by].accountStatus # "active"
    => /\ resp.code = 403
       /\ stored = resp.stored
       /\ users = resp.users

\* the demo client, active at the start and suspended since, tried to write
C15_Witness ==
    /\ resp.route = "PUT data"
    /\ resp.by = "user_2"
    /\ resp.users["user_2"].accountStatus = "suspended"
    /\ resp.code = 403

(* C16: a client account is 'pending' when its registration completes; its  *)
(* status becomes 'active' only in a verify-payment request of an           *)
(* owner-role caller, no other request sets it to 'active'; a suspend       *)
(* request of the owner leaves the client suspended whatever its status.    *)
C16_ActivationOnlyByOwner ==
    /\ resp.route = "register" /\ resp.code = 201 =>
          /\ resp.by \notin DOMAIN resp.users
          /\ users[resp.by] = [role |-> "client", accountStatus |-> "pending"]
    /\ \A c \in DOMAIN users :
          /\ users[c].accountStatus = "active"
          /\ c \in DOMAIN resp.users => resp.users[c].accountStatus # "active"
          => /\ resp.route = "verify-payment"
             /\ resp.code = 200
             /\ resp.on = c
             /\ resp.users[resp.by].role = "owner"
    /\ /\ resp.route = "suspend"
       /\ resp.users[resp.by].role = "owner"
       /\ resp.on \in DOMAIN resp.users
       /\ resp.users[resp.on].role = "client"
       => users[resp.on].accountStatus = "suspended"

\* the owner has just activated a registered client that was pending
C16_Witness ==
    /\ resp.route = "verify-payment"
    /\ resp.code = 200
    /\ resp.users[resp.on].accountStatus = "pending"
    /\ users[resp.on].accountStatus = "active"

(* C17: a write to the money-exchanger data by one client account (PUT      *)
(* data, POST owners, POST transactions) never changes what a different     *)
(* client account reads from GET /api/money-exchanger/data.                 *)
C17_TenantIsolation ==
    /\ resp.route \in LedgerWrites
    /\ resp.users[resp.by].role = "client"
    => \A u \in OtherClients : DataFor(u, stored) = DataFor(u, resp.stored)

\* the success message of a ledger operation is on the screen; New-Person,
\* delete and edit show theirs once the PUT they await has been answered
SuccessShown ==
    /\ last.outcome = "ok"
    /\ last.op \in {"NP", "PR", "Full", "Debt", "IN", "OUT", "Adjustment",
                    "Delete", "Edit"}
    /\ last.op \in {"NP", "Delete", "Edit"} => puts = EmptyBag

(* C18: whenever a ledger operation is reported to the user as successful,  *)
(* the resulting balances and log have been persisted on the server.        *)
C18_SuccessMeansPersisted == SuccessShown => stored = Body

(* C19: after an accepted Old-Person PartialRepayment the payer's balance   *)
(* is not above zero, for customer and owner payers.                        *)
C19_PartialRepaymentNotAboveZero ==
    Accepted({"PR"}) => BalNow(LastTx.payer) <= 0

\* a customer in debt has just made a partial payment
C19_Witness ==
    /\ Accepted({"PR"})
    /\ ~IsOwner(LastTx.payer)
    /\ BalBefore(LastTx.payer) < 0

\* an Old-Person request that passes the checks of the form and of the parties
OldRequest(r) ==
    /\ FieldsOk(r)
    /\ r.payerType = "customer" => Has(customers, r.payerName)
    /\ r.receiverType = "customer" => Has(customers, r.receiverName)

PayerBalance(r) ==
    IF r.payerType = "customer" THEN customers[r.payerName] ELSE ownerBalance

(* C20: an Old-Person FullRepayment is accepted only when the payer's       *)
(* balance is negative and the amount equals its absolute value; any other  *)
(* amount is rejected with AmountMismatch and a payer whose balance is not  *)
(* negative is rejected, for customer and owner payers, and these           *)
(* rejections change no balance.                                            *)
C20_FullRepaymentExact ==
    /\ \A r \in Requests(owners) :
          OldRequest(r) =>
              LET k == OPCheck("Full", r, ownerBalance, customers) IN
                /\ k = "ok" <=>
                      PayerBalance(r) < 0 /\ r.amount = -PayerBalance(r)
                /\ PayerBalance(r) < 0 /\ r.amount # -PayerBalance(r) =>
                      k = "AmountMismatch"
    /\ Accepted({"Full"}) =>
          /\ BalBefore(LastTx.payer) < 0
          /\ LastTx.amount = -BalBefore(LastTx.payer)
    /\ last.op = "op-message" /\ last.outcome \in {"AmountMismatch", "NoDebt"} =>
          ownerBalance = last.ob /\ customers = last.cust

\* a full payment of a customer was refused for its amount
C20_Witness ==
    /\ last.op = "op-message"
    /\ last.outcome = "AmountMismatch"
    /\ \E c \in DOMAIN customers : customers[c] < -1

(* C21: an Old-Person PartialRepayment is rejected with NoDebtToRepay when  *)
(* the payer's balance is zero or more and with AmountExceedsDebt when the  *)
(* amount is at least the payer's debt (an equal amount included), for     *)
(* customer and owner payers; both rejections leave the balances and the   *)
(* log unchanged.                                                          *)
C21_PartialRepaymentRejected ==
    /\ \A r \in Requests(owners) :
          OldRequest(r) =>
              LET k == OPCheck("PR", r, ownerBalance, customers) IN
                /\ PayerBalance(r) >= 0 => k = "NoDebt"
                /\ PayerBalance(r) < 0 /\ r.amount >= -PayerBalance(r) =>
                      k = "AmountExceedsDebt"
    /\ last.op = "op-message" /\ last.outcome \in {"NoDebt", "AmountExceedsDebt"} =>
          /\ ownerBalance = last.ob
          /\ customers = last.cust
          /\ transactions = last.log

\* a payment of at least the whole debt of a customer owing 1 was refused as
\* a partial payment
C21_Witness ==
    /\ last.op = "op-message"
    /\ last.outcome = "AmountExceedsDebt"
    /\ ownerBalance >= 0
    /\ \E c \in DOMAIN customers : customers[c] = -1
    /\ \A c \in DOMAIN customers : customers[c] >= -1

(* C22: an Old-Person DebtIssuance with the owner as payer and a customer   *)
(* whose balance is below zero as receiver is rejected with                 *)
(* RecipientInDebt (the owner not being in debt itself) and changes no      *)
(* balance and not the log; no such request is accepted.                    *)
C22_RecipientInDebtRejected ==
    /\ \A r \in Requests(owners) :
          /\ OldRequest(r)
          /\ r.payerType = "owner"
          /\ r.receiverType = "customer"
          /\ customers[r.receiverName] < 0
          => LET k == OPCheck("Debt", r, ownerBalance, customers) IN
               /\ k # "ok"
               /\ ownerBalance >= 0 => k = "RecipientInDebt"
    /\ /\ Accepted({"Debt"})
       /\ IsOwner(LastTx.payer)
       /\ ~IsOwner(LastTx.receiver)
       => BalBefore(LastTx.receiver) >= 0
    /\ last.outcome = "RecipientInDebt" =>
          /\ ownerBalance = last.ob
          /\ customers = last.cust
          /\ transactions = last.log

(* C23: an accepted Old-Person DebtIssuance of amount a lowers the payer's  *)
(* balance by a and raises the receiver's balance by a, on the balances     *)
(* the parties have, whether payer and receiver are owners or customers; a  *)
(* customer payer whose balance is above zero is rejected with              *)
(* InvertedDebtDirection.                                                   *)
C23_DebtIssuanceEffect ==
    /\ Accepted({"Debt"}) =>
          /\ BalNow(LastTx.payer) = BalBefore(LastTx.payer) - LastTx.amount
          /\ BalNow(LastTx.receiver) = BalBefore(LastTx.receiver) + LastTx.amount
    /\ \A r \in Requests(owners) :
          /\ OldRequest(r)
          /\ r.payerType = "customer"
          /\ customers[r.payerName] > 0
          => /\ OPCheck("Debt", r, ownerBalance, customers) = "ok"
             /\ OPLate("Debt", r, customers)
    /\ last.op = "Debt" => last.outcome = "ok"

\* the party a name stands for: every owner name is the one owner
Resolved(n) == IF IsOwner(n) THEN "owner" ELSE n

(* C24: every accepted New-Person transfer has a payer and a receiver that  *)
(* are different parties by resolved identity and introduces at least one   *)
(* new customer; a request whose payer and receiver are both the owner is   *)
(* never accepted and, with amount and cash type filled in, is rejected     *)
(* with InvalidParties whatever owner names are selected; an Old-Person     *)
(* request is accepted only when every customer party already exists.       *)
C24_NewPersonIntroducesCustomer ==
    /\ \A r \in Requests(owners) :
          r.payerType = "owner" /\ r.receiverType = "owner" =>
              LET k == NPCheck(r, ownerBalance, customers) IN
                /\ k # "ok"
                /\ r.amount > 0 /\ r.cashType # "" => k \in InvalidParties
    /\ Accepted({"NP"}) =>
          /\ Resolved(LastTx.payer) # Resolved(LastTx.receiver)
          /\ Introduced(LastTx) \ DOMAIN last.cust # {}
    /\ Accepted({"PR", "Full", "Debt"}) =>
          Introduced(LastTx) \subseteq DOMAIN last.cust

\* a transaction recorded with one of its textual fields empty
EmptyField(t) ==
    t.description = "" \/ t.cashType = "" \/ t.payer = "" \/ t.receiver = ""

(* C25: New-Person, Old-Person and General Entry requests with an empty     *)
(* description, an empty cash type or an empty party name are never         *)
(* accepted: no accepted operation records a transaction with an empty      *)
(* field, and a request rejected with MissingField changes neither the      *)
(* balances, the customer set nor the log.                                  *)
C25_EmptyFieldsRejected ==
    /\ Accepted({"NP", "PR", "Full", "Debt", "IN", "OUT", "Adjustment"}) =>
          ~EmptyField(LastTx)
    /\ last.outcome \in MissingField =>
          /\ ownerBalance = last.ob
          /\ customers = last.cust
          /\ transactions = last.log

\* the rows of the table drawn from a log
Rows(log) == SortedTransactions(log)

\* what editing can never change in a row
Fixed(t) ==
    [id |-> t.id, date |-> t.date, type |-> t.type, payer |-> t.payer,
     receiver |-> t.receiver]

C27_BalanceOnlyByTransaction ==
    \/ stored.ownerBalance # resp.stored.ownerBalance
    \/ stored.customers # resp.stored.customers
    => /\ Len(stored.transactions) = Len(resp.stored.transactions) + 1
       /\ SubSeq(stored.transactions, 1, Len(resp.stored.transactions)) =
              resp.stored.transactions

(* C28: persisting follows the order of the ledger operations: when every   *)
(* whole-ledger save issued by the operations so far has been answered by   *)
(* the server, the stored ledger is the client's ledger after its last      *)
(* operation, in whatever order the PUT requests arrived.                   *)
C28_SavesFollowOperations ==
    puts = EmptyBag /\ pending = EmptyBag /\ transactions # << >> =>
        stored = Body

(* C29: after any sequence of register and admin-settings requests no two   *)
(* user records share a username and no two share an email; a request that  *)
(* would create a duplicate is answered 400 and leaves the users as they    *)
(* were.                                                                    *)
C29_UniqueUsernamesEmails ==
    /\ \A u, v \in DOMAIN accounts :
          u # v => /\ accounts[u].username # accounts[v].username
                   /\ accounts[u].email # accounts[v].email
    /\ resp.route \in {"register", "admin-settings"} /\ resp.code = 400 =>
          accounts = resp.accounts /\ users = resp.users

(* C30: a password reset code changes a password at most once: no email     *)
(* and code have served more than one password save, whether the requests   *)
(* that carry them are handled one after the other or at the same time.     *)
C30_ResetCodeUsedOnce ==
    \A i, j \in 1 .. Len(passwordSaves) :
        i < j => \/ passwordSaves[i].email # passwordSaves[j].email
                 \/ passwordSaves[i].code # passwordSaves[j].code

====
